---- MODULE Spec2Model ----
(***************************************************************************)
(* Model of the TextConverter trait of src/lib.rs: the required method     *)
(* converter and the three provided methods new_from_text,                 *)
(* new_from_clipboard and new_from_file, together with the clipboard and   *)
(* the filesystem they read and write.                                     *)
(*                                                                         *)
(* A String is a sequence of characters, a file's content a sequence of    *)
(* bytes, a Path a sequence of path units (characters, or a byte that is   *)
(* not UTF-8).  An Option is a sequence of length at most one.             *)
(***************************************************************************)
EXTENDS Naturals, Sequences, FiniteSets, TLC

\* ------------------------------------------------------------- bounds
\* longest input path, in path units
MaxPathLen == 3
\* longest text (argument of new_from_text, clipboard text, file text)
MaxLen == 2
\* longest input path of the two-file filesystems
MaxPairLen == 2

\* ------------------------------------------------------------ values
None == <<>>
Some(x) == <<x>>

SeqsUpTo(S, n) == UNION {[1..k -> S] : k \in 0..n}

\* a unit of an OsStr that is not valid UTF-8
BadByte == "xFF"
PathChars == {"a", ".", "/", BadByte}
Paths == SeqsUpTo(PathChars, MaxPathLen)
PairPaths == SeqsUpTo({"a", "."}, MaxPairLen)

TextChars == {"x", "y"}
Texts == SeqsUpTo(TextChars, MaxLen)

\* the literal appended to the base of the input path (lib.rs:71)
Suffix == <<"_", "c", "o", "n", "v", "e", "r", "t", "e", "d", ".", "m", "d">>

\* ------------------------------------------------- strings and bytes
\* UTF-8 code of the (ASCII) characters the model uses
Code(c) ==
    CASE c = "x" -> 120
      [] c = "y" -> 121
      [] c = ">" -> 62

Char(b) ==
    CASE b = 120 -> "x"
      [] b = 121 -> "y"
      [] b = 62 -> ">"

\* a byte that starts no UTF-8 sequence
InvalidByte == 255

\* str::as_bytes
as_bytes(s) == [i \in 1..Len(s) |-> Code(s[i])]

ValidUtf8(bytes) == \A i \in 1..Len(bytes) : bytes[i] # InvalidByte

\* String::from_utf8 of a valid byte sequence
from_utf8(bytes) == [i \in 1..Len(bytes) |-> Char(bytes[i])]

FileBytes == {as_bytes(t) : t \in Texts} \cup {<<InvalidByte>>}

\* ------------------------------------------------------- transformers
Variants == {"ReverseText", "QuoteText"}

\* input.as_ref().chars().rev().collect()
Reverse(s) == [i \in 1..Len(s) |-> s[Len(s) + 1 - i]]

\* an implementer whose conversion of "" is not ""
Quote(s) == <<">">> \o s

converter(V, input) ==
    IF V = "ReverseText" THEN Reverse(input) ELSE Quote(input)

\* ----------------------------------------------------------- state
VARIABLES
    fs,         \* the filesystem: path -> bytes, for the files that exist
    clipboard,  \* the platform clipboard
    env,        \* what the output directory and the disk allow
    op,         \* the trait method called last
    variant,    \* the implementer it was called on
    arg,        \* its argument
    status,     \* "idle", "returned" or "panicked"
    panicMsg,   \* the message of the panic
    input,      \* Some(text given to converter), None if it was not called
    ret,        \* Some(value returned to the caller), None if none was
    new_path,   \* Some(output path computed), None if none was
    lastCall,   \* output path -> <<implementer, text read>> of the latest call
                \* of new_from_file that returned after writing that path
    prior       \* Some(bytes the output path held before the call), None if
                \* it did not exist or the call did not write it

vars == <<fs, clipboard, env, op, variant, arg, status, panicMsg, input, ret,
          new_path, lastCall, prior>>

EmptyFs == [p \in {} |-> <<>>]


\* ------------------------------------------------ external services
\* a Clipboard::new() that never fails
clipboard_new_always(c) == TRUE

\* Clipboard::new() succeeds iff the clipboard service is available
clipboard_new(c) == c.avail

\* a get_text that never finds text
get_text_none(c) == None

\* clipboard.get_text(): Some(text), or None when the clipboard holds no text
get_text(c) == c.text

\* Result::unwrap_or_default() on the text of the clipboard
unwrap_or_default(r) == IF r = None THEN <<>> ELSE r[1]

ClipStates ==
    {[avail |-> FALSE, text |-> None]}
        \cup {[avail |-> TRUE, text |-> t] : t \in {None} \cup {Some(s) : s \in Texts}}

\* a read that falls back to the empty text instead of failing
read_to_string_or_default(f, p) ==
    IF p \in DOMAIN f /\ ValidUtf8(f[p]) THEN Some(from_utf8(f[p])) ELSE Some(<<>>)

\* fs::read_to_string: Some(text) for an existing file of valid UTF-8
read_to_string(f, p) ==
    IF p \in DOMAIN f /\ ValidUtf8(f[p]) THEN Some(from_utf8(f[p])) ELSE None

\* Path::to_str: None when the path is not valid UTF-8
to_str(p) == IF \A i \in 1..Len(p) : p[i] # BadByte THEN Some(p) ELSE None

\* an open that keeps what the file holds (no truncation)
create_keep(f, q) == IF q \in DOMAIN f THEN f ELSE (q :> <<>>) @@ f

\* File::create: the file exists and is empty afterwards
create(f, q) == (q :> <<>>) @@ f

\* Write::write_all at the end of the file just created
write_all(f, q, bytes) == (q :> (f[q] \o bytes)) @@ f

\* ------------------------------------------------- path derivation
FirstIndex(s, c) == CHOOSE i \in 1..Len(s) : s[i] = c /\ \A j \in 1..(i - 1) : s[j] # c

\* str::split(c): the pieces between the occurrences of c
RECURSIVE split(_, _)
split(s, c) ==
    IF \E i \in 1..Len(s) : s[i] = c
    THEN <<SubSeq(s, 1, FirstIndex(s, c) - 1)>>
             \o split(SubSeq(s, FirstIndex(s, c) + 1, Len(s)), c)
    ELSE <<s>>

\* Iterator::take(n)
take(pieces, n) == SubSeq(pieces, 1, IF n < Len(pieces) THEN n ELSE Len(pieces))

\* collect::<String>(): the pieces concatenated
RECURSIVE collect(_)
collect(pieces) ==
    IF pieces = <<>> THEN <<>> ELSE Head(pieces) \o collect(Tail(pieces))

LastIndex(s, c) ==
    CHOOSE i \in 1..Len(s) : s[i] = c /\ \A j \in (i + 1)..Len(s) : s[j] # c

\* a derivation that strips only what follows the last '.'
derive_path_last_dot(str) ==
    (IF \E i \in 1..Len(str) : str[i] = "."
     THEN SubSeq(str, 1, LastIndex(str, ".") - 1) ELSE str) \o Suffix

\* a derivation that writes in place
derive_path_in_place(str) == str

\* a derivation that keeps the whole input path as the base
derive_path_whole(str) == str \o Suffix

\* path.to_str().unwrap().split('.').take(1).collect::<String>() + "_converted.md"
derive_path(str) == collect(take(split(str, "."), 1)) \o Suffix

\* ------------------------------------------------------ operations
\* a new_from_text that hands its input back
new_from_text_echo(V, s) == s

\* fn new_from_text(input) -> String
new_from_text(V, s) == converter(V, s)

Alive == status # "panicked"

Called(o, V, a) == op' = o /\ variant' = V /\ arg' = a

Returned(value) == status' = "returned" /\ panicMsg' = "" /\ ret' = Some(value)

Panicked(msg) == status' = "panicked" /\ panicMsg' = msg /\ ret' = None

NewFromText(V, s) ==
    /\ Alive
    /\ Called("new_from_text", V, s)
    /\ input' = Some(s)
    /\ Returned(new_from_text(V, s))
    /\ new_path' = None
    /\ prior' = None
    /\ UNCHANGED <<fs, clipboard, env, lastCall>>

\* Clipboard::new() fails: expect panics
NewFromClipboardPanics(V) ==
    /\ Alive
    /\ ~clipboard_new(clipboard)
    /\ Called("new_from_clipboard", V, <<>>)
    /\ input' = None
    /\ Panicked("Could not fetch the clipboard contents")
    /\ new_path' = None
    /\ prior' = None
    /\ UNCHANGED <<fs, clipboard, env, lastCall>>

NewFromClipboardReturns(V) ==
    /\ Alive
    /\ clipboard_new(clipboard)
    /\ Called("new_from_clipboard", V, <<>>)
    /\ input' = Some(unwrap_or_default(get_text(clipboard)))
    /\ Returned(converter(V, unwrap_or_default(get_text(clipboard))))
    /\ new_path' = None
    /\ prior' = None
    /\ UNCHANGED <<fs, clipboard, env, lastCall>>

\* the paths new_from_file is called with: those of the files that exist and,
\* of the files that do not, the paths of at most one unit
CallPaths(universe) == {p \in universe : p \in DOMAIN fs \/ Len(p) <= 1}

\* fs::read_to_string fails: expect panics before anything else happens
NewFromFileReadPanics(V, p) ==
    /\ Alive
    /\ read_to_string(fs, p) = None
    /\ Called("new_from_file", V, p)
    /\ input' = None
    /\ Panicked("Failed to read file contents")
    /\ new_path' = None
    /\ prior' = None
    /\ UNCHANGED <<fs, clipboard, env, lastCall>>

\* to_str() is None: unwrap panics after the conversion
NewFromFileToStrPanics(V, p) ==
    /\ Alive
    /\ read_to_string(fs, p) # None
    /\ to_str(p) = None
    /\ Called("new_from_file", V, p)
    /\ input' = read_to_string(fs, p)
    /\ Panicked("called Option::unwrap() on a None value")
    /\ new_path' = None
    /\ prior' = None
    /\ UNCHANGED <<fs, clipboard, env, lastCall>>

\* File::create fails: expect panics, nothing is written
NewFromFileCreatePanics(V, p) ==
    /\ Alive
    /\ read_to_string(fs, p) # None
    /\ to_str(p) # None
    /\ env = "nocreate"
    /\ Called("new_from_file", V, p)
    /\ input' = read_to_string(fs, p)
    /\ Panicked("Failed to create the output file")
    /\ new_path' = Some(derive_path(to_str(p)[1]))
    /\ prior' = None
    /\ UNCHANGED <<fs, clipboard, env, lastCall>>

\* write_all fails after k bytes: expect panics, the file holds the k bytes
NewFromFileWritePanics(V, p) ==
    /\ Alive
    /\ read_to_string(fs, p) # None
    /\ to_str(p) # None
    /\ env = "nowrite"
    /\ LET output == converter(V, read_to_string(fs, p)[1])
           q == derive_path(to_str(p)[1])
       IN  /\ Len(as_bytes(output)) > 0
           /\ \E k \in 0..(Len(as_bytes(output)) - 1) :
                 fs' = write_all(create(fs, q), q, SubSeq(as_bytes(output), 1, k))
           /\ new_path' = Some(q)
    /\ Called("new_from_file", V, p)
    /\ input' = read_to_string(fs, p)
    /\ Panicked("Failed to write to the output file")
    /\ prior' = None
    /\ UNCHANGED <<clipboard, env, lastCall>>

NewFromFileReturns(V, p) ==
    /\ Alive
    /\ read_to_string(fs, p) # None
    /\ to_str(p) # None
    /\ env # "nocreate"
    /\ LET output == converter(V, read_to_string(fs, p)[1])
           q == derive_path(to_str(p)[1])
       IN  /\ env = "nowrite" => Len(as_bytes(output)) = 0
           /\ fs' = write_all(create(fs, q), q, as_bytes(output))
           /\ new_path' = Some(q)
           /\ lastCall' = (q :> <<V, read_to_string(fs, p)[1]>>) @@ lastCall
           /\ prior' = IF q \in DOMAIN fs THEN Some(fs[q]) ELSE None
           /\ Returned(output)
    /\ Called("new_from_file", V, p)
    /\ input' = read_to_string(fs, p)
    /\ UNCHANGED <<clipboard, env>>

\* ---------------------------------------------------- specifications
Start ==
    /\ op = "none" /\ variant = "none" /\ arg = <<>>
    /\ status = "idle" /\ panicMsg = ""
    /\ input = None /\ ret = None /\ new_path = None
    /\ lastCall = EmptyFs /\ prior = None

Envs == {"ok", "nocreate", "nowrite"}

\* a path that can name a regular file: its last component is a name
FileName(p) ==
    /\ p # <<>>
    /\ p[Len(p)] # "/"
    /\ ~(p[Len(p)] = "." /\ (Len(p) = 1 \/ p[Len(p) - 1] = "/"))
    /\ ~(Len(p) >= 2 /\ p[Len(p)] = "." /\ p[Len(p) - 1] = "."
            /\ (Len(p) = 2 \/ p[Len(p) - 2] = "/"))

\* the file entry point over a filesystem of at most one file
InitFile ==
    /\ Start
    /\ clipboard = [avail |-> FALSE, text |-> None]
    /\ env \in Envs
    /\ \/ fs = EmptyFs
       \/ \E p \in {q \in Paths : FileName(q)}, b \in FileBytes : fs = (p :> b)

NextFile ==
    \/ \E V \in Variants, p \in CallPaths(Paths) : NewFromFileReadPanics(V, p)
    \/ \E V \in Variants, p \in CallPaths(Paths) : NewFromFileToStrPanics(V, p)
    \/ \E V \in Variants, p \in CallPaths(Paths) : NewFromFileCreatePanics(V, p)
    \/ \E V \in Variants, p \in CallPaths(Paths) : NewFromFileWritePanics(V, p)
    \/ \E V \in Variants, p \in CallPaths(Paths) : NewFromFileReturns(V, p)

SpecFile == InitFile /\ [][NextFile]_vars

\* the three entry points over a clipboard in any state and a filesystem of at
\* most one file, whose path is one unit long
Init ==
    /\ Start
    /\ clipboard \in ClipStates
    /\ env \in Envs
    /\ \/ fs = EmptyFs
       \/ \E p \in {q \in Paths : FileName(q) /\ Len(q) = 1}, b \in FileBytes :
             fs = (p :> b)

Next ==
    \/ \E V \in Variants, s \in Texts : NewFromText(V, s)
    \/ \E V \in Variants : NewFromClipboardPanics(V)
    \/ \E V \in Variants : NewFromClipboardReturns(V)
    \/ NextFile

Spec == Init /\ [][Next]_vars

\* the file entry point over a filesystem of two text files in a directory
\* that can be written
InitPair ==
    /\ Start
    /\ clipboard = [avail |-> FALSE, text |-> None]
    /\ env = "ok"
    /\ \E p1, p2 \in {q \in PairPaths : FileName(q)}, t1, t2 \in Texts :
          /\ p1 # p2
          /\ fs = (p1 :> as_bytes(t1)) @@ (p2 :> as_bytes(t2))

NextPair ==
    \/ \E V \in Variants, p \in CallPaths(PairPaths) : NewFromFileReadPanics(V, p)
    \/ \E V \in Variants, p \in CallPaths(PairPaths) : NewFromFileReturns(V, p)

SpecPair == InitPair /\ [][NextPair]_vars


\* ---------------------------------------------------------- claims
Str_HelloWorld == <<"H", "e", "l", "l", "o", " ", "W", "o", "r", "l", "d", "!">>
Str_dlroWolleH == <<"!", "d", "l", "r", "o", "W", " ", "o", "l", "l", "e", "H">>
Str_notes_txt == <<"n", "o", "t", "e", "s", ".", "t", "x", "t">>
Str_notes == <<"n", "o", "t", "e", "s">>
Str_archive_tar_gz ==
    <<"a", "r", "c", "h", "i", "v", "e", ".", "t", "a", "r", ".", "g", "z">>
Str_archive == <<"a", "r", "c", "h", "i", "v", "e">>
Str_README == <<"R", "E", "A", "D", "M", "E">>

MsgRead == "Failed to read file contents"
MsgCreate == "Failed to create the output file"
MsgWrite == "Failed to write to the output file"

\* the file at p is missing or is not valid text
Unreadable(f, p) == p \notin DOMAIN f \/ \E i \in 1..Len(f[p]) : f[p][i] = InvalidByte

\* the text of the readable file at p
TextOf(f, p) == [i \in 1..Len(f[p]) |-> Char(f[p][i])]

\* s up to, not including, its first '.'; all of s when it has none
IsDotPrefix(base, s) ==
    /\ Len(base) <= Len(s)
    /\ \A i \in 1..Len(base) : base[i] = s[i] /\ base[i] # "."
    /\ Len(base) = Len(s) \/ s[Len(base) + 1] = "."

FileReturned == op = "new_from_file" /\ status = "returned"

\* C1: new_from_text(s) returns exactly V.converter(s) and never fails; for
\* the reversing implementer the result is s read backwards, and
\* new_from_text("Hello World!") is "!dlroW olleH".
C1_FromTextIsConverter ==
    /\ op = "new_from_text" =>
          /\ status = "returned"
          /\ ret = Some(converter(variant, arg))
          /\ variant = "ReverseText" =>
                /\ Len(ret[1]) = Len(arg)
                /\ \A i \in 1..Len(arg) : ret[1][i] = arg[Len(arg) + 1 - i]
    /\ new_from_text("ReverseText", Str_HelloWorld) = Str_dlroWolleH

C1_Witness ==
    /\ op = "new_from_text" /\ variant = "ReverseText"
    /\ arg = <<"x", "y">> /\ ret = Some(<<"y", "x">>)

\* C2: whenever new_from_file computes an output path for input path p, it is
\* the part of p before its first '.' (all of p when it has none) followed by
\* "_converted.md", wherever that '.' stands; notes.txt, archive.tar.gz and
\* README give notes_converted.md, archive_converted.md, README_converted.md.
C2_DerivedPath ==
    /\ new_path # None =>
          \E n \in 0..Len(arg) :
              /\ IsDotPrefix(SubSeq(arg, 1, n), arg)
              /\ new_path[1] = SubSeq(arg, 1, n) \o Suffix
    /\ FileReturned => new_path # None
    /\ derive_path(Str_notes_txt) = Str_notes \o Suffix
    /\ derive_path(Str_archive_tar_gz) = Str_archive \o Suffix
    /\ derive_path(Str_README) = Str_README \o Suffix

\* the '.' of a directory component cuts the path: ./a gives _converted.md
C2_Witness ==
    /\ FileReturned
    /\ arg = <<".", "/", "a">>
    /\ new_path = Some(Suffix)

\* C3: when new_from_file(p) returns for a file of text c, the file at the
\* output path holds exactly the bytes of V.converter(c), whatever it held
\* before, and the value returned is V.converter(c).
C3_FileRoundTrip ==
    [][(op' = "new_from_file" /\ status' = "returned") =>
          /\ ~Unreadable(fs, arg')
          /\ new_path' # None
          /\ new_path'[1] \in DOMAIN fs'
          /\ fs'[new_path'[1]] = as_bytes(converter(variant', TextOf(fs, arg')))
          /\ ret' = Some(converter(variant', TextOf(fs, arg')))]_vars

\* the output path held three bytes before the call and holds two after it
C3_Witness ==
    /\ FileReturned
    /\ variant = "ReverseText"
    /\ prior = Some(as_bytes(<<">", "x", "y">>))
    /\ fs[new_path[1]] = as_bytes(<<"y", "x">>)
    /\ ret = Some(<<"y", "x">>)

\* C4: new_from_file on a path whose file is missing or is not valid text
\* panics before the converter is called and before any file is created or
\* truncated: the filesystem is what it was before the call.
C4_ReadFailureLeavesFs ==
    [][(op' = "new_from_file" /\ Unreadable(fs, arg')) =>
          /\ status' = "panicked"
          /\ panicMsg' = MsgRead
          /\ input' = None
          /\ new_path' = None
          /\ ret' = None
          /\ fs' = fs]_vars

\* a call on a missing path after a call that wrote its output
C4_Witness ==
    /\ op = "new_from_file" /\ status = "panicked" /\ panicMsg = MsgRead
    /\ arg \notin DOMAIN fs
    /\ Cardinality(DOMAIN fs) = 2
    /\ input = None

C6_EmptyStringOnFailure ==
    (op = "new_from_clipboard" /\ (~clipboard.avail \/ clipboard.text = None)) =>
        /\ status = "returned"
        /\ ret = Some(<<>>)

\* C7: a clipboard that cannot be opened, an input file that cannot be read
\* as text and an output file that cannot be created or fully written each
\* end the call in a panic: no value is returned, and no step follows it.
C7_FailuresAreFatal ==
    [][/\ status # "panicked"
       /\ (op' = "new_from_clipboard" /\ ~clipboard.avail) =>
             status' = "panicked"
       /\ (op' = "new_from_file" /\ Unreadable(fs, arg')) =>
             status' = "panicked"
       /\ (op' = "new_from_file" /\ env = "nocreate") =>
             status' = "panicked"
       /\ (op' = "new_from_file" /\ env = "nowrite" /\ ~Unreadable(fs, arg')
              /\ converter(variant', TextOf(fs, arg')) # <<>>) =>
             status' = "panicked"
       /\ status' = "panicked" => ret' = None /\ panicMsg' # ""
       /\ status' # "panicked" => status' = "returned" /\ ret' # None]_vars

\* the write failed part-way: the output file is there, the call panicked
C7_Witness ==
    /\ op = "new_from_file" /\ status = "panicked" /\ panicMsg = MsgWrite
    /\ ret = None
    /\ new_path # None /\ new_path[1] \in DOMAIN fs

\* C8: for every path whose file is readable text and whose output file can
\* be created and written, new_from_file completes without panicking and
\* writes the output file.
C8_AnyPathCompletes ==
    (op = "new_from_file" /\ env = "ok" /\ ~Unreadable(fs, arg)) =>
        /\ status = "returned"
        /\ new_path # None
        /\ new_path[1] \in DOMAIN fs

C10_LatestCallWins ==
    /\ \A q \in DOMAIN lastCall :
          /\ q \in DOMAIN fs
          /\ fs[q] = as_bytes(converter(lastCall[q][1], lastCall[q][2]))
    /\ FileReturned =>
          /\ \E n \in 0..Len(arg) :
                /\ IsDotPrefix(SubSeq(arg, 1, n), arg)
                /\ new_path[1] = SubSeq(arg, 1, n) \o Suffix
          /\ lastCall[new_path[1]] = <<variant, input[1]>>

\* a. was converted after a: their shared output holds the result for a.
C10_Witness ==
    /\ FileReturned
    /\ <<"a">> \in DOMAIN fs /\ fs[<<"a">>] = as_bytes(<<"x", "y">>)
    /\ arg = <<"a", ".">> /\ fs[arg] = as_bytes(<<"x">>)
    /\ variant = "QuoteText"
    /\ prior = Some(as_bytes(<<"y", "x">>))
    /\ fs[<<"a">> \o Suffix] = as_bytes(<<">", "x">>)

====
